---- MODULE Spec2Model ----
(***************************************************************************)
(* Model of the GitLab merge-request reviewer (src/web_hook.py): the two   *)
(* entry points (gitlab_webhook, review_pr_manual), the shared             *)
(* review_merge_request routine, the GitLabClient calls it makes and       *)
(* call_ollama_api.  Each request is handled by one task; the repository   *)
(* host and the generation backend are the environment.                    *)
(*                                                                         *)
(* Python values are tagged records (None, Str, Num, Dict); a string is a  *)
(* sequence of tokens, so that prefix tests, containment and formatting    *)
(* are computed and not assumed.                                           *)
(***************************************************************************)
EXTENDS Integers, Sequences, FiniteSets, TLC

\* ------------------------------------------------------------------ bounds
\* Merge requests of a project carry the iids 1..MaxIid.
MaxIid == 1
\* Projects on the host carry the numeric ids 1..MaxProject.
MaxProject == 2

\* A URL given to the resolver is made of at most MaxPieces pieces after its
\* head.
MaxPieces == 4

\* The request-handling tasks.
Procs == {"h1", "h2"}

\* ----------------------------------------------------------- Python values
None == [py |-> "None"]
Str(s) == [py |-> "str", s |-> s]
Num(n) == [py |-> "int", n |-> n]
Dict(f) == [py |-> "dict", d |-> f]
\* A JSON array: a value that is neither None nor a dict.
PyList == [py |-> "list"]
EmptyDict == Dict(<<>>)
\* A one-token string.
S(t) == Str(<<t>>)

\* bool(v)
Truthy(v) ==
    CASE v.py = "None" -> FALSE
      [] v.py = "str"  -> v.s # <<>>
      [] v.py = "int"  -> v.n # 0
      [] v.py = "dict" -> DOMAIN v.d # {}
      [] OTHER         -> TRUE

\* a or b
PyOr(a, b) == IF Truthy(a) THEN a ELSE b

\* d.get(k, default), for a dict d
Get(d, k, default) == IF k \in DOMAIN d.d THEN d.d[k] ELSE default

\* Only a dict has .get: None.get(...) and [..].get(...) raise AttributeError.
HasGet(v) == v.py = "dict"

\* str(v) inside an f-string
Fmt(v) ==
    CASE v.py = "None" -> <<"None">>
      [] v.py = "str"  -> v.s
      [] v.py = "int"  -> <<ToString(v.n)>>
      [] OTHER         -> <<"{..}">>

\* s.startswith(prefix), on token sequences
StartsWith(s, prefix) ==
    /\ Len(s) >= Len(prefix)
    /\ SubSeq(s, 1, Len(prefix)) = prefix

\* part in s, on token sequences (contiguous)
Contains(s, part) ==
    \E i \in 0..(Len(s) - Len(part)) : SubSeq(s, i + 1, i + Len(part)) = part

\* sep.join(parts)
RECURSIVE Join(_, _)
Join(sep, parts) ==
    IF parts = <<>> THEN <<>>
    ELSE IF Len(parts) = 1 THEN parts[1]
    ELSE parts[1] \o sep \o Join(sep, Tail(parts))

\* --------------------------------------------------------------- constants
\* config.GITLAB_PROJECT_ID, the default repository
GITLAB_PROJECT_ID == 1
OLLAMA_MODEL == "llama3"
OLLAMA_BASE_URL == "http://ollama:11434"
PROMPT == <<"VALIDATION RULES ... OUTPUT FORMAT ...">>

\* --------------------------------------------------- generation backend
\* What one POST to <base>/api/generate can end in: a timeout, a transport
\* error, a non-2xx status (raise_for_status), or a 2xx reply with a JSON body.
Texts ==
    { <<"Table Name Check: PASS", "Action: APPROVE">>,
      <<"Error:", " table name is upper case">>,
      <<>> }

JsonBodies ==
    { Dict([response |-> Str(t)]) : t \in Texts }
        \cup { Dict([response |-> None]), Dict([done |-> S("true")]), PyList }

Replies ==
    { [t |-> "timeout"], [t |-> "request_error"],
      [t |-> "status_error", detail |-> <<"Server error '500 Internal Server Error'">>] }
        \cup { [t |-> "json", body |-> b] : b \in JsonBodies }

\* A reply that call_ollama_api reports as a failure (one of its except arms).
IsFailure(reply) ==
    \/ reply.t \in {"timeout", "request_error", "status_error"}
    \/ reply.t = "json" /\ ~HasGet(reply.body)

\* call_ollama_api with a timeout message that lacks the "Error:" prefix.
CallOllamaApiMutant(reply) ==
    CASE reply.t = "timeout" ->
            Str(<<"Request to Ollama ", "timed out", ". Please try again.">>)
      [] reply.t = "request_error" ->
            Str(<<"Error:", " ", "Failed to connect to Ollama API at ", OLLAMA_BASE_URL>>)
      [] reply.t = "status_error" ->
            Str(<<"Error:", " ">> \o reply.detail)
      [] OTHER ->
            IF HasGet(reply.body)
            THEN Get(reply.body, "response", Str(<<"No response from Ollama">>))
            ELSE Str(<<"Error:", " ", "'list' object has no attribute 'get'">>)

\* call_ollama_api: the returned value for a backend reply.
CallOllamaApi(reply) ==
    CASE reply.t = "timeout" ->
            Str(<<"Error:", " ", "Request to Ollama ", "timed out", ". Please try again.">>)
      [] reply.t = "request_error" ->
            Str(<<"Error:", " ", "Failed to connect to Ollama API at ", OLLAMA_BASE_URL>>)
      [] reply.t = "status_error" ->
            Str(<<"Error:", " ">> \o reply.detail)
      [] OTHER ->
            IF HasGet(reply.body)
            THEN Get(reply.body, "response", Str(<<"No response from Ollama">>))
            ELSE Str(<<"Error:", " ", "'list' object has no attribute 'get'">>)

\* ------------------------------------------------------- prompt and comment
\* build_review_prompt
BuildReviewPrompt(custom_prompt, diff, mr_info) ==
    <<"You are a code reviewer for a GitLab merge request.\n\n">>
        \o custom_prompt
        \o <<"\n\n## Merge Request Information\n- Title: ">>
        \o Fmt(Get(mr_info, "title", S("N/A")))
        \o <<"\n- MR ID: ">>
        \o Fmt(Get(mr_info, "iid", S("N/A")))
        \o <<"\n\n## Code Changes (Diff)\n\n">>
        \o diff
        \o <<"\n\n---\n\nPlease review the code changes above ...\n">>

WarningHead == "!! **Automated Review Error**\n\n"
WarningTail == "\n\nPlease check the reviewer service logs."
ReviewHead == "**Automated Code Review** (via Ollama "
ReviewTail == "\n\n---\n*This review was generated automatically by the GitLab PR Reviewer service.*\n"

WarningComment(text) == <<WarningHead>> \o text \o <<WarningTail>>
\* A review comment without the generated text / cut before its footer.
ReviewCommentNoText(text) == <<ReviewHead, OLLAMA_MODEL, ")\n\n", ReviewTail>>
ReviewCommentCut(text) == <<ReviewHead, OLLAMA_MODEL, ")\n\n">> \o text
ReviewComment(text) == <<ReviewHead, OLLAMA_MODEL, ")\n\n">> \o text \o <<ReviewTail>>

\* The branch of review_merge_request on the generated text.
IsErrorResponse(text) == StartsWith(text, <<"Error:">>)

\* The comment body for a returned text.
FormatComment(text) ==
    IF IsErrorResponse(text) THEN WarningComment(text) ELSE ReviewComment(text)

\* ---------------------------------------------------------------- results
\* The dictionaries review_merge_request returns.
ResultSuccess(mr_id) ==
    [status |-> "success",
     message |-> <<"Review completed for MR ">> \o Fmt(mr_id),
     mr_id |-> mr_id]
ResultError(message) == [status |-> "error", message |-> message]

ResultNoChanges(mr_id) == ResultError(<<"No changes found in MR ">> \o Fmt(mr_id))
ResultDiffFailed == ResultError(<<"Failed to fetch MR diff: ", "exc">>)
ResultPostFailed == ResultError(<<"Failed to post comment: ", "exc">>)
ResultInternal == ResultError(<<"Internal error: ", "exc">>)

\* ---------------------------------------------------------- HTTP responses
JSONResponse(status_code, content) ==
    [kind |-> "json", status_code |-> status_code, content |-> content]
HTTPException(status_code, detail) ==
    [kind |-> "exception", status_code |-> status_code, content |-> [detail |-> detail]]
Message(m) == [message |-> m]

\* Every result answered with 200.
StatusOfAlways200(result) == 200
\* status_code = 200 if result["status"] == "success" else 500
StatusOf(result) == IF result.status = "success" THEN 200 ELSE 500

\* An exception leaving review_merge_request (no path of the code produces it:
\* every raise inside the function is caught by one of its except arms).
Raised == [status |-> "raised"]

\* --------------------------------------------------------- repository host
Projects == 1..MaxProject
Iids == 1..MaxIid
MRs == Projects \X Iids

\* mr.changes()["changes"], each entry reduced to its "diff": no file, files
\* with an empty diff (renames, mode changes, binary files), files with text.
EmptyFragment == <<>>
TextFragment == <<"+ name: Orders">>
ChangeLists ==
    { <<>>,
      <<EmptyFragment>>,
      <<EmptyFragment, EmptyFragment>>,
      <<TextFragment>>,
      <<TextFragment, TextFragment>> }

\* GitLabClient.get_merge_request_diff: "\n".join of the per-file diffs
GetMergeRequestDiff(changeList) == Str(Join(<<"\n">>, changeList))

\* The path of project n on the host.
ProjectPath(n) == <<"g", "/", ToString(n)>>

\* GitLabClient.__init__: the project the client is bound to, None when
\* gl.auth() or gl.projects.get() raises.
NewGitLabClient(project_id, project_path, reachable) ==
    IF ~reachable THEN None
    ELSE IF Truthy(project_path)
    THEN IF \E n \in Projects : ProjectPath(n) = project_path.s
         THEN Num(CHOOSE n \in Projects : ProjectPath(n) = project_path.s)
         ELSE None
    ELSE LET id == PyOr(project_id, Num(GITLAB_PROJECT_ID))
         IN  IF id.n \in Projects THEN id ELSE None

\* --------------------------------------------------------- webhook payloads
Absent == [py |-> "absent"]
\* The dict holding the keys of f that are present.
MkDict(f) == Dict([k \in {k \in DOMAIN f : f[k] # Absent} |-> f[k]])

MrDicts ==
    { MkDict([iid |-> i, action |-> a, title |-> t]) :
        i \in {Absent, Num(0)} \cup { Num(n) : n \in 1..(MaxIid + 1) },
        a \in {Absent, S("open"), S("update"), S("reopen"), S("close"), S("merge")},
        t \in {Absent, S("Add orders table")} }

AttrPairs ==
    { <<d, Absent>> : d \in MrDicts }
        \cup ({Absent, None, EmptyDict} \X MrDicts)
        \cup ({Absent, None, EmptyDict} \X {Absent, None})

ProjectDicts ==
    {Absent, None, MkDict([id |-> Num(MaxProject + 1), project_id |-> Absent])}
        \cup UNION { { MkDict([id |-> Num(n), project_id |-> Absent]),
                       MkDict([id |-> Absent, project_id |-> Num(n)]),
                       MkDict([id |-> Num(0), project_id |-> Num(n)]) } : n \in Projects }

\* The bodies a webhook request can carry: JSON objects, a JSON array, and a
\* body that is not JSON.
Payloads ==
    { MkDict([object_kind |-> k, event_type |-> e, object_attributes |-> a[1],
              merge_request |-> a[2], project |-> pr]) :
        k \in {Absent, S("merge_request"), S("push")},
        e \in {Absent, S("merge_request"), S("Merge Request Hook"), S("note")},
        a \in AttrPairs,
        pr \in ProjectDicts }
        \cup { PyList, [py |-> "invalid"] }

\* ------------------------------------------------------------ Event Intake
MergeRequestKinds == { S("merge_request"), S("Merge Request Hook") }
ReviewedActions == { S("open"), S("update"), S("reopen") }

\* The two fields read in the other order.
EventTypeObjectKindFirst(payload) ==
    PyOr(Get(payload, "object_kind", None), Get(payload, "event_type", None))
\* event_type = payload.get("event_type") or payload.get("object_kind")
EventType(payload) ==
    PyOr(Get(payload, "event_type", None), Get(payload, "object_kind", None))

\* mr_data = payload.get("object_attributes") or payload.get("merge_request", {})
MrData(payload) ==
    PyOr(Get(payload, "object_attributes", None), Get(payload, "merge_request", EmptyDict))

\* action not in ["open", "update", "reopen"], negated
IsReviewedAction(action) == action \in ReviewedActions

\* "if not mr_id" that tests for the number 0 only.
IsMissingIdMutant(iid) == iid = Num(0)
\* if not mr_id  (gitlab_webhook)
IsMissingId(iid) == ~Truthy(iid)

InternalServerError == HTTPException(500, <<"Internal server error: ", "exc">>)
Respond(r) == [next |-> "respond", response |-> r]

\* What the handler answers when the action is not a reviewed one.
SkipAction(mr_id, action) ==
    Respond(JSONResponse(200,
        Message(<<"Skipped MR ">> \o Fmt(mr_id) \o <<" - action: ">> \o Fmt(action))))

\* gitlab_webhook up to the construction of the client: either the response it
\* ends with, or the values it goes on with.
WebhookIntake(payload) ==
    IF ~HasGet(payload) THEN Respond(InternalServerError)
    ELSE IF EventType(payload) \notin MergeRequestKinds
    THEN Respond(JSONResponse(200,
            Message(<<"Event type ">> \o Fmt(EventType(payload)) \o <<" not processed">>)))
    ELSE IF ~HasGet(MrData(payload)) THEN Respond(InternalServerError)
    ELSE LET mr_data == MrData(payload)
             iid == Get(mr_data, "iid", None)
             action == Get(mr_data, "action", Str(<<>>))
             project_data == Get(payload, "project", EmptyDict)
         IN  IF ~IsReviewedAction(action) THEN SkipAction(iid, action)
             ELSE IF IsMissingId(iid)
             THEN Respond(HTTPException(400, <<"Missing merge request ID">>))
             ELSE IF ~HasGet(project_data) THEN Respond(InternalServerError)
             ELSE [next |-> "proceed",
                   mr_id |-> iid,
                   mr_title |-> Get(mr_data, "title", Str(<<>>)),
                   project_id |-> PyOr(Get(project_data, "id", None),
                                       Get(project_data, "project_id", None))]

\* ------------------------------------------------------------ URL Resolver
\* A URL is a sequence of tokens: the scheme and host as one token, then "/",
\* "-", "merge_requests", "?", "#", digits and name segments.
SchemeHost == "https://gitlab.example.com"
\* A netloc urlparse rejects (ValueError: Invalid IPv6 URL).
BadNetloc == "https://[gitlab"
Marker == <<"/", "-", "/", "merge_requests", "/">>

IsDigit(t) == \E d \in 0..9 : t = ToString(d)
DigitValue(t) == CHOOSE d \in 0..9 : t = ToString(d)

\* int(digits)
RECURSIVE ToInt(_)
ToInt(digits) ==
    IF digits = <<>> THEN 0
    ELSE 10 * ToInt(SubSeq(digits, 1, Len(digits) - 1)) + DigitValue(digits[Len(digits)])

\* The netloc (after a scheme and "//", or after a leading "//") ends at the
\* next "/", "?" or "#".
RECURSIVE DropNetloc(_)
DropNetloc(u) ==
    IF u = <<>> \/ Head(u) \in {"/", "?", "#"} THEN u ELSE DropNetloc(Tail(u))

\* urlparse(pr_url).path: what follows the scheme and host, up to the query
\* or the fragment.
UrlPath(url) ==
    LET rest == IF url # <<>> /\ Head(url) = SchemeHost THEN DropNetloc(Tail(url))
                ELSE IF StartsWith(url, <<"/", "/">>) THEN DropNetloc(SubSeq(url, 3, Len(url)))
                ELSE url
        stops == { i \in 1..Len(rest) : rest[i] \in {"?", "#"} }
        end == IF stops = {} THEN Len(rest)
               ELSE (CHOOSE i \in stops : \A k \in stops : i <= k) - 1
    IN  SubSeq(rest, 1, end)

\* The pattern /(.+?)/-/merge_requests/(\d+) matches path with its first "/" at
\* i and the marker at j.
MatchAt(path, i, j) ==
    /\ path[i] = "/"
    /\ j >= i + 2
    /\ j + 5 <= Len(path)
    /\ SubSeq(path, j, j + 4) = Marker
    /\ IsDigit(path[j + 5])

\* The end of the longest run of digits that starts at k.
RECURSIVE DigitsEnd(_, _)
DigitsEnd(path, k) ==
    IF k + 1 <= Len(path) /\ IsDigit(path[k + 1]) THEN DigitsEnd(path, k + 1) ELSE k

\* The search with a greedy first group, (.+) for (.+?).
RegexSearchGreedy(path) ==
    LET starts == { i \in 1..Len(path) : \E j \in 1..Len(path) : MatchAt(path, i, j) }
    IN  IF starts = {} THEN None
        ELSE LET i == CHOOSE x \in starts : \A y \in starts : x <= y
                 js == { j \in 1..Len(path) : MatchAt(path, i, j) }
                 j == CHOOSE x \in js : \A y \in js : x >= y
             IN  [py |-> "match",
                  group1 |-> SubSeq(path, i + 1, j - 1),
                  group2 |-> SubSeq(path, j + 5, DigitsEnd(path, j + 5))]

\* re.search(pattern, path): the leftmost match, the first group as short and
\* the second as long as possible; None when nothing matches.
RegexSearch(path) ==
    LET starts == { i \in 1..Len(path) : \E j \in 1..Len(path) : MatchAt(path, i, j) }
    IN  IF starts = {} THEN None
        ELSE LET i == CHOOSE x \in starts : \A y \in starts : x <= y
                 js == { j \in 1..Len(path) : MatchAt(path, i, j) }
                 j == CHOOSE x \in js : \A y \in js : x <= y
             IN  [py |-> "match",
                  group1 |-> SubSeq(path, i + 1, j - 1),
                  group2 |-> SubSeq(path, j + 5, DigitsEnd(path, j + 5))]

\* parse_gitlab_pr_url: (project_path, mr_id) or (None, None)
ParseGitlabPrUrl(pr_url) ==
    IF pr_url # <<>> /\ Head(pr_url) = BadNetloc THEN <<None, None>>
    ELSE LET match == RegexSearch(UrlPath(pr_url))
         IN  IF match = None THEN <<None, None>>
             ELSE <<Str(match.group1), Num(ToInt(match.group2))>>

\* The pr_url values sent to the manual trigger.
Urls ==
    { <<SchemeHost, "/", "g", "/", ToString(n), "/", "-", "/", "merge_requests", "/", ToString(i)>> :
        n \in 1..(MaxProject + 1), i \in 0..(MaxIid + 1) }
      \cup
    { <<"/", "g", "/", "1", "/", "-", "/", "merge_requests", "/", "1", "?", "tab", "1">>,
      <<SchemeHost, "/", "g", "/", "1", "/", "-", "/", "issues", "/", "1">>,
      <<SchemeHost, "/", "-", "/", "merge_requests", "/", "1">>,
      <<SchemeHost, "/", "g", "/", "1", "/", "-", "/", "merge_requests", "/", "x">>,
      <<BadNetloc, "/", "g", "/", "1", "/", "-", "/", "merge_requests", "/", "1">>,
      <<>> }

\* The strings given to the resolver: a head (nothing, a scheme and host, a
\* scheme and host with a first path segment, a netloc urlparse rejects)
\* followed by up to MaxPieces pieces.
UrlHeads == { <<>>, <<SchemeHost>>, <<SchemeHost, "/", "g">>, <<BadNetloc>> }
UrlPieces == { <<"/">>, <<"g">>, <<"-">>, Marker, <<"1">>, <<"2">>, <<"?">> }

RECURSIVE Flatten(_)
Flatten(pieces) == IF pieces = <<>> THEN <<>> ELSE Head(pieces) \o Flatten(Tail(pieces))

UrlStrings ==
    { h \o Flatten(ps) :
        h \in UrlHeads, ps \in UNION { [1..n -> UrlPieces] : n \in 0..MaxPieces } }

\* ------------------------------------------------------------------- state
VARIABLES
    pc,               \* where each task stands
    endpoint,         \* the route that received the task's request
    request,          \* the webhook payload / the pr_url, until it is consumed
    mr_id,            \* local mr_id
    mr_title,         \* local mr_title
    project,          \* the project_id / project_path handed to GitLabClient
    intake_diff,      \* gitlab_webhook's local diff
    client,           \* gitlab_client: the project it is bound to
    diff,             \* local diff
    review_prompt,    \* local review_prompt
    generation,       \* the backend's reply to the POST of call_ollama_api
    ollama_response,  \* local ollama_response
    comment,          \* local comment
    result,           \* what review_merge_request returned
    response,         \* the HTTP response of the task
    calls,            \* per task, how often each collaborator was called
    failed,           \* per task, the calls that raised or reported a failure
    changes,          \* host: the per-file diffs of each merge request
    notes             \* host: the comments of each merge request

intake == <<mr_id, mr_title, project, intake_diff, client>>
run == <<diff, review_prompt, generation, ollama_response, comment, result>>
locals == <<intake, run>>
host == <<changes, notes>>
vars == <<pc, endpoint, request, locals, response, calls, failed, host>>

NoCalls == [client |-> 0, get_mr |-> 0, get_diff |-> 0, post |-> 0,
            ollama |-> 0, review |-> 0]

Called(p, what) == calls' = [calls EXCEPT ![p][what] = @ + 1]

\* The call just made by task p failed / went through.
Failed(p, what) == failed' = [failed EXCEPT ![p] = @ \cup {what}]

\* Calls of task p to the repository host.
HostCalls(p) == calls[p].client + calls[p].get_mr + calls[p].get_diff + calls[p].post

Init ==
    /\ pc = [p \in Procs |-> "idle"]
    /\ endpoint = [p \in Procs |-> "none"]
    /\ request = [p \in Procs |-> None]
    /\ mr_id = [p \in Procs |-> None]
    /\ mr_title = [p \in Procs |-> None]
    /\ project = [p \in Procs |-> None]
    /\ client = [p \in Procs |-> None]
    /\ intake_diff = [p \in Procs |-> None]
    /\ diff = [p \in Procs |-> None]
    /\ review_prompt = [p \in Procs |-> None]
    /\ generation = [p \in Procs |-> None]
    /\ ollama_response = [p \in Procs |-> None]
    /\ comment = [p \in Procs |-> None]
    /\ result = [p \in Procs |-> None]
    /\ response = [p \in Procs |-> None]
    /\ calls = [p \in Procs |-> NoCalls]
    /\ failed = [p \in Procs |-> {}]
    /\ changes = [m \in MRs |-> <<>>]
    /\ notes = [m \in MRs |-> <<>>]

\* The merge request task p addresses, once its client is bound.
Addressed(p) == <<client[p].n, mr_id[p].n>>
Addresses(p, m) ==
    /\ pc[p] \notin {"idle", "done"}
    /\ client[p] # None
    /\ mr_id[p].py = "int"
    /\ Addressed(p) = m

\* Whether a host call of task p about its merge request can succeed at all.
MrExists(p) == mr_id[p].py = "int" /\ mr_id[p].n \in Iids

\* The task ends with HTTP response r.
Finish(p, r) ==
    /\ response' = [response EXCEPT ![p] = r]
    /\ pc' = [pc EXCEPT ![p] = "done"]

\* review_merge_request returns r to its caller.
Return(p, r) ==
    /\ result' = [result EXCEPT ![p] = r]
    /\ pc' = [pc EXCEPT ![p] = "returned"]

\* ------------------------------------------------------------ the webhook
\* POST /webhook/gitlab arrives.
ReceiveWebhook(p) ==
    /\ pc[p] = "idle"
    /\ \E payload \in Payloads : request' = [request EXCEPT ![p] = payload]
    /\ endpoint' = [endpoint EXCEPT ![p] = "webhook"]
    /\ pc' = [pc EXCEPT ![p] = "wh_intake"]
    /\ UNCHANGED <<locals, response, calls, failed, host>>

\* gitlab_webhook: payload parsing and the kind, action and iid filters.
WebhookFilter(p) ==
    /\ pc[p] = "wh_intake"
    /\ LET out == WebhookIntake(request[p])
       IN  /\ request' = [request EXCEPT ![p] = None]
           /\ IF out.next = "respond"
              THEN /\ Finish(p, out.response)
                   /\ UNCHANGED <<mr_id, mr_title, project>>
              ELSE /\ mr_id' = [mr_id EXCEPT ![p] = out.mr_id]
                   /\ mr_title' = [mr_title EXCEPT ![p] = out.mr_title]
                   /\ project' = [project EXCEPT ![p] = out.project_id]
                   /\ pc' = [pc EXCEPT ![p] = "wh_client"]
                   /\ UNCHANGED response
    /\ UNCHANGED <<endpoint, intake_diff, client, run, calls, failed, host>>

\* gitlab_webhook: gitlab_client = GitLabClient(project_id=project_id); an
\* exception reaches the handler's last except arm.
WebhookClient(p) ==
    /\ pc[p] = "wh_client"
    /\ Called(p, "client")
    /\ \E reachable \in BOOLEAN :
         LET c == NewGitLabClient(project[p], None, reachable)
         IN  /\ client' = [client EXCEPT ![p] = c]
             /\ IF c = None
                THEN /\ Finish(p, InternalServerError)
                     /\ Failed(p, "client")
                ELSE /\ pc' = [pc EXCEPT ![p] = "wh_diff"]
                     /\ UNCHANGED <<response, failed>>
    /\ UNCHANGED <<endpoint, request, mr_id, mr_title, project, intake_diff, run, host>>

\* if not diff  (gitlab_webhook)
IntakeDiffIsEmptyMutant(d) == FALSE
IntakeDiffIsEmpty(d) == ~Truthy(d)

\* What the webhook answers when its own diff fetch returns no text.
WebhookNoChanges(id) ==
    JSONResponse(200, Message(<<"No changes found in MR ">> \o Fmt(id)))

\* What the webhook answers when its own diff fetch raises.
WebhookDiffFailed == HTTPException(500, <<"Failed to fetch MR diff: ", "exc">>)

\* gitlab_webhook: the diff fetch before the review, and the call of
\* review_merge_request(gitlab_client, mr_id, mr_title).
WebhookDiff(p) ==
    /\ pc[p] = "wh_diff"
    /\ Called(p, "get_diff")
    /\ \E ok \in (IF MrExists(p) THEN BOOLEAN ELSE {FALSE}) :
         IF ~ok
         THEN /\ Finish(p, WebhookDiffFailed)
              /\ Failed(p, "intake_diff")
              /\ UNCHANGED intake_diff
         ELSE LET d == GetMergeRequestDiff(changes[Addressed(p)])
              IN  /\ intake_diff' = [intake_diff EXCEPT ![p] = d]
                  /\ UNCHANGED failed
                  /\ IF IntakeDiffIsEmpty(d)
                     THEN Finish(p, WebhookNoChanges(mr_id[p]))
                     ELSE /\ pc' = [pc EXCEPT ![p] = "rv_enter"]
                          /\ UNCHANGED response
    /\ UNCHANGED <<endpoint, request, mr_id, mr_title, project, client, run, host>>

\* gitlab_webhook: the response built from the result of the review (an
\* exception out of the review would reach the handler's last except arm).
WebhookRespond(p) ==
    /\ pc[p] = "returned"
    /\ endpoint[p] = "webhook"
    /\ Finish(p, IF result[p] = Raised THEN InternalServerError
                 ELSE JSONResponse(StatusOf(result[p]), result[p]))
    /\ UNCHANGED <<endpoint, request, locals, calls, failed, host>>

\* ------------------------------------------------------ the manual trigger
\* GET or POST /review?pr_url=... arrives.
ReceiveManual(p) ==
    /\ pc[p] = "idle"
    /\ \E url \in Urls : request' = [request EXCEPT ![p] = Str(url)]
    /\ endpoint' = [endpoint EXCEPT ![p] = "manual"]
    /\ pc' = [pc EXCEPT ![p] = "man_parse"]
    /\ UNCHANGED <<locals, response, calls, failed, host>>

\* if not project_path or not mr_id
IsInvalidUrl(parsed) == ~Truthy(parsed[1]) \/ ~Truthy(parsed[2])

InvalidUrl == HTTPException(400, <<"Invalid GitLab PR URL. Expected format: ...">>)

\* review_pr_manual: the URL is parsed and rejected with 400 when it yields
\* no project path or no merge-request id.
ManualParse(p) ==
    /\ pc[p] = "man_parse"
    /\ LET parsed == ParseGitlabPrUrl(request[p].s)
       IN  /\ UNCHANGED request
           /\ project' = [project EXCEPT ![p] = parsed[1]]
           /\ mr_id' = [mr_id EXCEPT ![p] = parsed[2]]
           /\ IF IsInvalidUrl(parsed)
              THEN Finish(p, InvalidUrl)
              ELSE /\ pc' = [pc EXCEPT ![p] = "man_client"]
                   /\ UNCHANGED response
    /\ UNCHANGED <<endpoint, mr_title, intake_diff, client, run, calls, failed, host>>

ProjectNotFound(path) ==
    HTTPException(404, <<"Project not found: ">> \o Fmt(path)
                           \o <<". Check project path and access token.">>)

\* review_pr_manual: gitlab_client = GitLabClient(project_path=project_path),
\* any exception answered with 404, then the call of
\* review_merge_request(gitlab_client, mr_id).
ManualClient(p) ==
    /\ pc[p] = "man_client"
    /\ Called(p, "client")
    /\ \E reachable \in BOOLEAN :
         LET c == NewGitLabClient(None, project[p], reachable)
         IN  /\ client' = [client EXCEPT ![p] = c]
             /\ IF c = None
                THEN /\ Finish(p, ProjectNotFound(project[p]))
                     /\ Failed(p, "client")
                ELSE /\ pc' = [pc EXCEPT ![p] = "rv_enter"]
                     /\ UNCHANGED <<response, failed>>
    /\ UNCHANGED <<endpoint, request, mr_id, mr_title, project, intake_diff, run, host>>

\* review_pr_manual: the response built from the result of the review.
ManualRespond(p) ==
    /\ pc[p] = "returned"
    /\ endpoint[p] = "manual"
    /\ Finish(p, IF result[p] = Raised THEN InternalServerError
                 ELSE JSONResponse(StatusOf(result[p]), result[p]))
    /\ UNCHANGED <<endpoint, request, locals, calls, failed, host>>

\* --------------------------------------------------- review_merge_request
\* The title is looked up whether or not the caller passed one.
NeedsTitleAlways(title) == TRUE
\* if not mr_title
NeedsTitle(title) == ~Truthy(title)

\* Entry of review_merge_request(gitlab_client, mr_id, mr_title): the test
\* "if not mr_title".
ReviewEnter(p) ==
    /\ pc[p] = "rv_enter"
    /\ Called(p, "review")
    /\ pc' = [pc EXCEPT ![p] = IF NeedsTitle(mr_title[p]) THEN "rv_title" ELSE "rv_diff"]
    /\ UNCHANGED <<endpoint, request, locals, response, failed, host>>

\* The failed title lookup is not caught.
OnTitleFailureRaises == Raised
\* What the function returns when the title lookup raises.
OnTitleFailure == ResultInternal

\* mr = gitlab_client.get_merge_request(mr_id); mr_title = mr.title
ReviewTitle(p) ==
    /\ pc[p] = "rv_title"
    /\ Called(p, "get_mr")
    /\ \E ok \in (IF MrExists(p) THEN BOOLEAN ELSE {FALSE}) :
         IF ok
         THEN /\ mr_title' = [mr_title EXCEPT ![p] = S("title on host")]
              /\ pc' = [pc EXCEPT ![p] = "rv_diff"]
              /\ UNCHANGED <<result, failed>>
         ELSE /\ Return(p, OnTitleFailure)
              /\ Failed(p, "title")
              /\ UNCHANGED mr_title
    /\ UNCHANGED <<endpoint, request, mr_id, project, intake_diff, client, diff,
                   review_prompt, generation, ollama_response, comment, response, host>>

\* if not diff  (review_merge_request)
DiffIsEmptyMutant(d) == d = None
DiffIsEmpty(d) == ~Truthy(d)

\* What the function returns when the fetched diff is empty / the fetch raises.
OnEmptyDiff(id) == ResultNoChanges(id)
OnDiffFailure == ResultDiffFailed

\* diff = gitlab_client.get_merge_request_diff(mr_id), the "if not diff"
\* test, and the prompt built from the diff.
ReviewDiff(p) ==
    /\ pc[p] = "rv_diff"
    /\ Called(p, "get_diff")
    /\ \E ok \in (IF MrExists(p) THEN BOOLEAN ELSE {FALSE}) :
         IF ~ok
         THEN /\ Return(p, OnDiffFailure)
              /\ Failed(p, "diff")
              /\ UNCHANGED <<diff, review_prompt>>
         ELSE LET d == GetMergeRequestDiff(changes[Addressed(p)])
              IN  /\ diff' = [diff EXCEPT ![p] = d]
                  /\ UNCHANGED failed
                  /\ IF DiffIsEmpty(d)
                     THEN /\ Return(p, OnEmptyDiff(mr_id[p]))
                          /\ UNCHANGED review_prompt
                     ELSE /\ review_prompt' = [review_prompt EXCEPT ![p] =
                                Str(BuildReviewPrompt(PROMPT, d.s,
                                    Dict([title |-> mr_title[p], iid |-> mr_id[p]])))]
                          /\ pc' = [pc EXCEPT ![p] = "rv_ollama"]
                          /\ UNCHANGED result
    /\ UNCHANGED <<endpoint, request, intake, generation, ollama_response, comment,
                   response, host>>

\* What the function returns when formatting the comment raises
\* (ollama_response.startswith on a value that is not a string).
OnFormatFailure == ResultInternal

\* ollama_response = call_ollama_api(review_prompt, OLLAMA_MODEL) and the
\* formatting of the comment.
ReviewGenerate(p) ==
    /\ pc[p] = "rv_ollama"
    /\ Called(p, "ollama")
    /\ \E reply \in Replies :
         LET r == CallOllamaApi(reply)
         IN  /\ generation' = [generation EXCEPT ![p] = reply]
             /\ ollama_response' = [ollama_response EXCEPT ![p] = r]
             /\ IF IsFailure(reply) THEN Failed(p, "generation") ELSE UNCHANGED failed
             /\ IF r.py # "str"
                THEN /\ Return(p, OnFormatFailure)
                     /\ UNCHANGED comment
                ELSE /\ comment' = [comment EXCEPT ![p] = Str(FormatComment(r.s))]
                     /\ pc' = [pc EXCEPT ![p] = "rv_post"]
                     /\ UNCHANGED result
    /\ UNCHANGED <<endpoint, request, intake, diff, review_prompt, response, host>>

\* What the function returns after the comment was / was not accepted.
OnPosted(id) == ResultSuccess(id)
\* The post failure is not caught.
OnPostFailureRaises == Raised
OnPostFailure == ResultPostFailed

\* A host call that keeps one comment per merge request.
AddCommentToMrOnce(existing, body) == IF existing = <<>> THEN <<body>> ELSE existing
\* GitLabClient.add_comment_to_mr: mr.notes.create({"body": comment})
AddCommentToMr(existing, body) == Append(existing, body)

\* gitlab_client.add_comment_to_mr(mr_id, comment) and the return that follows.
ReviewPost(p) ==
    /\ pc[p] = "rv_post"
    /\ Called(p, "post")
    /\ \E ok \in (IF MrExists(p) THEN BOOLEAN ELSE {FALSE}) :
         IF ok
         THEN /\ notes' = [notes EXCEPT ![Addressed(p)] = AddCommentToMr(@, comment[p].s)]
              /\ Return(p, OnPosted(mr_id[p]))
              /\ UNCHANGED failed
         ELSE /\ Return(p, OnPostFailure)
              /\ Failed(p, "post")
              /\ UNCHANGED notes
    /\ UNCHANGED <<endpoint, request, intake, diff, review_prompt, generation,
                   ollama_response, comment, response, changes>>

\* ----------------------------------------------------------- environment
\* The places of a task from which it still reads the changes of its merge
\* request.
BeforeLastFetch == {"wh_diff", "rv_enter", "rv_title", "rv_diff"}

\* The merge request a task is about to read is changed on the host (a push,
\* a rebase, a revert).
HostModify(m) ==
    /\ \E p \in Procs : Addresses(p, m) /\ pc[p] \in BeforeLastFetch
    /\ \E c \in ChangeLists :
         /\ c # changes[m]
         /\ changes' = [changes EXCEPT ![m] = c]
    /\ UNCHANGED <<pc, endpoint, request, locals, response, calls, failed, notes>>

\* ------------------------------------------------------------ specification
Handle(p) ==
    \/ ReceiveWebhook(p)
    \/ WebhookFilter(p)
    \/ WebhookClient(p)
    \/ WebhookDiff(p)
    \/ WebhookRespond(p)
    \/ ReceiveManual(p)
    \/ ManualParse(p)
    \/ ManualClient(p)
    \/ ManualRespond(p)
    \/ ReviewEnter(p)
    \/ ReviewTitle(p)
    \/ ReviewDiff(p)
    \/ ReviewGenerate(p)
    \/ ReviewPost(p)

\* One request is handled at a time, by task h1.
Next ==
    \/ \E p \in {"h1"} : Handle(p)
    \/ \E m \in MRs : HostModify(m)

Spec == Init /\ [][Next]_vars

\* --------------------------------------------------- the resolver on its own
\* GET or POST /review arrives with any of the strings above as pr_url.
ReceiveAnyUrl(p) ==
    /\ pc[p] = "idle"
    /\ \E url \in UrlStrings : request' = [request EXCEPT ![p] = Str(url)]
    /\ endpoint' = [endpoint EXCEPT ![p] = "manual"]
    /\ pc' = [pc EXCEPT ![p] = "man_parse"]
    /\ UNCHANGED <<locals, response, calls, failed, host>>

\* The manual trigger up to the result of parse_gitlab_pr_url and the test on
\* it.
NextUrl == ReceiveAnyUrl("h1") \/ ManualParse("h1")

SpecUrl == Init /\ [][NextUrl]_vars

\* ------------------------------------------- two events for one merge request
\* Notifications for merge request 1 of project 1, as GitLab sends them (the
\* title is in the event): it was opened, it was updated.
SameRequestEvents ==
    { MkDict([object_kind |-> S("merge_request"), event_type |-> Absent,
              object_attributes |-> MkDict([iid |-> Num(1), action |-> a,
                                            title |-> S("Add orders table")]),
              merge_request |-> Absent,
              project |-> MkDict([id |-> Num(1), project_id |-> Absent])]) :
        a \in {S("open"), S("update")} }

\* POST /webhook/gitlab arrives with one of these notifications.
ReceiveSameRequest(p) ==
    /\ pc[p] = "idle"
    /\ \E payload \in SameRequestEvents : request' = [request EXCEPT ![p] = payload]
    /\ endpoint' = [endpoint EXCEPT ![p] = "webhook"]
    /\ pc' = [pc EXCEPT ![p] = "wh_intake"]
    /\ UNCHANGED <<locals, response, calls, failed, host>>

\* The steps of a task for such a notification (with a title in the event,
\* review_merge_request makes no title lookup).
HandleSameRequest(p) ==
    \/ ReceiveSameRequest(p)
    \/ WebhookFilter(p)
    \/ WebhookClient(p)
    \/ WebhookDiff(p)
    \/ WebhookRespond(p)
    \/ ReviewEnter(p)
    \/ ReviewDiff(p)
    \/ ReviewGenerate(p)
    \/ ReviewPost(p)

\* Both tasks handle a notification for the same merge request; their steps
\* interleave in any order.
NextConc ==
    \/ \E p \in Procs : HandleSameRequest(p)
    \/ \E m \in MRs : HostModify(m)

SpecConc == Init /\ [][NextConc]_vars

\* ------------------------------------------------------------------ claims
\* review_merge_request has returned to the task's handler.
HasReturned(p) == pc[p] \in {"returned", "done"} /\ result[p] # None

\* The comments on the merge request task p addresses.
NotesOf(p) == IF client[p] # None /\ MrExists(p) THEN notes[Addressed(p)] ELSE <<>>

\* C1: whenever the diff fetched by review_merge_request is empty, the run has
\* returned and has made no call to call_ollama_api and no call to
\* add_comment_to_mr.
C1_EmptyDiffMakesNoCalls ==
    \A p \in Procs :
        (diff[p] # None /\ diff[p].s = <<>>)
            => /\ HasReturned(p)
               /\ calls[p].ollama = 0
               /\ calls[p].post = 0

C1_Witness ==
    \E p \in Procs : diff[p] = Str(<<>>) /\ pc[p] = "done" /\ calls[p].review = 1

\* C2: after a generation failure (timeout, connection failure, unexpected
\* failure) the run goes on to add_comment_to_mr, calls it exactly once before
\* it returns, and the body it passes is the warning comment, which contains
\* the failure text returned by call_ollama_api (for a timeout the words
\* "timed out").
C2_GenerationFailureStillPosts ==
    \A p \in Procs :
        "generation" \in failed[p]
            => /\ pc[p] \in {"rv_post", "returned", "done"}
               /\ calls[p].post = (IF pc[p] = "rv_post" THEN 0 ELSE 1)
               /\ comment[p] # None
               /\ Head(comment[p].s) = WarningHead
               /\ Contains(comment[p].s, ollama_response[p].s)
               /\ generation[p].t = "timeout" => Contains(comment[p].s, <<"timed out">>)

C2_Witness ==
    \E p \in Procs :
        /\ generation[p] # None
        /\ generation[p].t = "timeout"
        /\ calls[p].post = 1
        /\ pc[p] = "done"

\* C3: whenever the generation call of a run has failed, the result the run
\* returns has the status "error", also when the warning comment was posted.
C3_GenerationFailureReturnsError ==
    \A p \in Procs :
        ("generation" \in failed[p] /\ HasReturned(p))
            => result[p].status = "error"

\* C4: when the generation call succeeds with a text and the host accepts the
\* comment, the run has posted exactly one comment, the comment on the host
\* contains the text verbatim, and the run returns "success".
C4_TextPostedVerbatim ==
    \A p \in Procs :
        ( /\ HasReturned(p)
          /\ generation[p] # None
          /\ ~IsFailure(generation[p])
          /\ ollama_response[p].py = "str"
          /\ "post" \notin failed[p] )
            => /\ calls[p].post = 1
               /\ \E i \in 1..Len(NotesOf(p)) :
                    /\ NotesOf(p)[i] = comment[p].s
                    /\ Contains(NotesOf(p)[i], ollama_response[p].s)
               /\ result[p].status = "success"

C4_Witness ==
    \E p \in Procs :
        /\ pc[p] = "done"
        /\ generation[p] # None
        /\ generation[p].t = "json"
        /\ ollama_response[p] = Str(<<"Table Name Check: PASS", "Action: APPROVE">>)
        /\ result[p].status = "success"

\* A body made of a header, the whole text and the footer of its format.
IsCompleteBody(body, text) ==
    \/ body = <<WarningHead>> \o text \o <<WarningTail>>
    \/ body = <<ReviewHead, OLLAMA_MODEL, ")\n\n">> \o text \o <<ReviewTail>>

\* C5: a run calls add_comment_to_mr at most once and the host holds at most
\* one comment of it; a run that returns "success" has called it exactly once,
\* with a complete body, and that body is the comment on the host.
C5_AtMostOneCompleteComment ==
    \A p \in Procs :
        /\ calls[p].post <= 1
        /\ Len(NotesOf(p)) <= Cardinality({q \in Procs : calls[q].post = 1})
        /\ (HasReturned(p) /\ result[p].status = "success")
              => /\ calls[p].post = 1
                 /\ IsCompleteBody(comment[p].s, ollama_response[p].s)
                 /\ \E i \in 1..Len(NotesOf(p)) : NotesOf(p)[i] = comment[p].s

C5_Witness ==
    \E p \in Procs :
        /\ pc[p] = "done"
        /\ result[p] # None
        /\ result[p].status = "success"
        /\ Len(NotesOf(p)) = 1
        /\ Head(comment[p].s) = ReviewHead

\* C6: whenever add_comment_to_mr fails, the run returns a result (no
\* exception leaves review_merge_request) and its status is "error", for a
\* review body as for a warning body.
C6_PostFailureReturnsError ==
    \A p \in Procs :
        "post" \in failed[p]
            => /\ HasReturned(p)
               /\ result[p] # Raised
               /\ result[p].status = "error"

C6_Witness ==
    \E p \in Procs :
        /\ "post" \in failed[p]
        /\ "generation" \in failed[p]
        /\ pc[p] = "done"
        /\ response[p].status_code = 500

\* The payload is a JSON object whose kind, as the handler resolves it, is a
\* merge-request kind.
IsMergeRequestEvent(payload) ==
    HasGet(payload) /\ EventType(payload) \in MergeRequestKinds

\* The action the event carries, None when it carries none.
EventAction(payload) ==
    IF HasGet(MrData(payload)) THEN Get(MrData(payload), "action", None) ELSE None

\* C7: every merge-request-kind event whose action is not open, update or
\* reopen (a missing action included) is answered 200 as skipped, with no call
\* to the orchestrator, the repository host or the generation backend, and the
\* task makes none afterwards.
C7_OtherActionsAreSkipped ==
    [][ \A p \in Procs :
          /\ ( /\ pc[p] = "wh_intake"
               /\ pc'[p] # "wh_intake"
               /\ IsMergeRequestEvent(request[p])
               /\ EventAction(request[p]) \notin ReviewedActions )
                => /\ pc'[p] = "done"
                   /\ response'[p].kind = "json"
                   /\ response'[p].status_code = 200
                   /\ calls'[p] = NoCalls
          /\ pc[p] = "done" => (pc'[p] = "done" /\ calls'[p] = calls[p]) ]_vars

\* A webhook task whose event passed the kind, action and iid filters.
IsReviewedEvent(p) == endpoint[p] = "webhook" /\ mr_id[p] # None

\* C8 as stated: a merge-request event with a reviewed action and a valid iid
\* has led to exactly one call of review_merge_request when its handling ends.
C8_ReviewedEventRunsOnce ==
    \A p \in Procs :
        (IsReviewedEvent(p) /\ pc[p] = "done") => calls[p].review = 1

\* C8, amended: a webhook task calls review_merge_request at most once, and
\* when its handling has ended it has called it exactly once if and only if
\* its own diff fetch returned a non-empty diff (so not when the client could
\* not be built, nor when that fetch failed or returned an empty diff).
C8_RunsOnceIffIntakeDiffNonEmpty ==
    \A p \in Procs :
        endpoint[p] = "webhook"
            => /\ calls[p].review <= 1
               /\ pc[p] = "done"
                    => (calls[p].review = 1
                          <=> (intake_diff[p] # None /\ intake_diff[p].s # <<>>))

C8_Witness ==
    \E p \in Procs :
        /\ IsReviewedEvent(p)
        /\ pc[p] = "done"
        /\ calls[p].review = 1
        /\ result[p] # None

\* The calls whose failure is a failure of the repository host.
HostFailures == {"client", "intake_diff", "title", "diff", "post"}

\* C9 as stated: a webhook task whose payload was well-formed (it passed the
\* filters and went on to the repository host) is answered 200, whatever fails
\* downstream.
C9_WellFormedEventAnswered200 ==
    \A p \in Procs :
        (endpoint[p] = "webhook" /\ pc[p] = "done" /\ calls[p].client >= 1)
            => response[p].status_code = 200

\* C9, amended: a webhook task is answered 200, 400 or 500.  When the review
\* ran, the body is its result and the status is 200 exactly when the result is
\* "success", 500 otherwise; without a run, 200 goes with a message body (a
\* skip, no changes) and 400/500 with an error detail.  Every failed call to
\* the repository host is answered 500, and 400 is answered before any call.
C9_StatusFollowsResult ==
    \A p \in Procs :
        (endpoint[p] = "webhook" /\ pc[p] = "done")
            => LET r == response[p]
               IN  /\ r.status_code \in {200, 400, 500}
                   /\ result[p] # None
                        => /\ r.kind = "json"
                           /\ r.content = result[p]
                           /\ r.status_code = 200 <=> result[p].status = "success"
                   /\ result[p] = None
                        => (r.status_code = 200 <=> r.kind = "json")
                   /\ failed[p] \cap HostFailures # {} => r.status_code = 500
                   /\ r.status_code = 400 => calls[p] = NoCalls

C9_Witness ==
    \E p \in Procs :
        /\ endpoint[p] = "webhook"
        /\ pc[p] = "done"
        /\ "diff" \in failed[p]
        /\ response[p].status_code = 500
        /\ response[p].content.status = "error"

\* C10: the manual trigger answers 400 exactly when the URL yields no project
\* path and merge-request id, 404 exactly when the repository cannot be
\* resolved, 500 whenever a downstream step (request lookup, diff fetch,
\* generation, comment posting) fails, 200 on success, and nothing else.
C10_ManualStatusMapping ==
    \A p \in Procs :
        (endpoint[p] = "manual" /\ pc[p] = "done")
            => LET code == response[p].status_code
               IN  /\ code \in {200, 400, 404, 500}
                   /\ code = 400 <=> IsInvalidUrl(ParseGitlabPrUrl(request[p].s))
                   /\ code = 404 <=> "client" \in failed[p]
                   /\ failed[p] \cap {"title", "diff", "generation", "post"} # {}
                        => code = 500
                   /\ (result[p] # None /\ result[p].status = "success")
                        => code = 200

\* C11: a run whose diff fetch returned an empty diff ends in an outcome that is
\* not the error outcome, on the manual path as on the webhook path.
C11_EmptyDiffIsNotAnError ==
    \A p \in Procs :
        (diff[p] = Str(<<>>) /\ HasReturned(p)) => result[p].status # "error"

\* The calls of a run to the repository host that have failed.
RunHostFailures == {"title", "diff", "post"}

\* C12 as stated: whatever fails, a run ends in one outcome, no exception
\* leaves review_merge_request, and the outcome carries the request id.
C12_EveryOutcomeCarriesRequestId ==
    \A p \in Procs :
        HasReturned(p)
            => /\ result[p] # Raised
               /\ result[p].status \in {"success", "error"}
               /\ "mr_id" \in DOMAIN result[p]
               /\ result[p].mr_id = mr_id[p]

\* C12, amended: whatever fails, a run returns exactly one result dictionary,
\* with the status "success" or "error" and a message, and no exception leaves
\* review_merge_request; every failed call of the run to the repository host
\* ends it with the status "error".  The success result carries the request id
\* (key mr_id); the error results carry no such key.
C12_OneResultNoEscape ==
    \A p \in Procs :
        /\ calls[p].review <= 1
        /\ result[p] # None => (pc[p] \in {"returned", "done"} /\ calls[p].review = 1)
        /\ HasReturned(p)
             => /\ result[p] # Raised
                /\ result[p].status \in {"success", "error"}
                /\ "message" \in DOMAIN result[p]
                /\ result[p].status = "success"
                     => ("mr_id" \in DOMAIN result[p] /\ result[p].mr_id = mr_id[p])
                /\ result[p].status = "error" => "mr_id" \notin DOMAIN result[p]
        /\ failed[p] \cap RunHostFailures # {}
             => (HasReturned(p) /\ result[p].status = "error")

C12_Witness ==
    \E p \in Procs :
        /\ "title" \in failed[p]
        /\ pc[p] = "done"
        /\ result[p] = ResultInternal
        /\ response[p].status_code = 500

\* The iid the event carries, None when it carries none.
EventIid(payload) ==
    IF HasGet(MrData(payload)) THEN Get(MrData(payload), "iid", None) ELSE None

\* C13: a merge-request-kind event whose action is open, update or reopen and
\* which carries no iid is answered with HTTP 400 (an error, not a skip), with
\* no call to the repository host, the orchestrator or the generation backend,
\* and the task makes none afterwards.
C13_MissingIdRejected ==
    [][ \A p \in Procs :
          /\ ( /\ pc[p] = "wh_intake"
               /\ pc'[p] # "wh_intake"
               /\ IsMergeRequestEvent(request[p])
               /\ EventAction(request[p]) \in ReviewedActions
               /\ EventIid(request[p]) = None )
                => /\ pc'[p] = "done"
                   /\ response'[p].kind = "exception"
                   /\ response'[p].status_code = 400
                   /\ calls'[p] = NoCalls
          /\ (pc[p] = "done" /\ response[p].status_code = 400)
                => (pc'[p] = "done" /\ calls'[p] = NoCalls) ]_vars

C13_Witness ==
    \E p \in Procs :
        /\ endpoint[p] = "webhook"
        /\ pc[p] = "done"
        /\ response[p] = HTTPException(400, <<"Missing merge request ID">>)
        /\ calls[p] = NoCalls

\* Task p has had a comment accepted on merge request m.
Posted(p, m) ==
    /\ client[p] # None
    /\ mr_id[p].py = "int"
    /\ Addressed(p) = m
    /\ calls[p].post = 1
    /\ "post" \notin failed[p]

\* C14: with two events for the same merge request handled at the same time
\* or one after the other, nothing is deduplicated: the merge request holds
\* one comment per accepted post, the outcome of each run depends on its own
\* post only, and the comment of every run that returned "success" is on the
\* merge request (so two runs leave two comments).
C14_NoDeduplication ==
    /\ \A m \in MRs : Len(notes[m]) = Cardinality({p \in Procs : Posted(p, m)})
    /\ \A p \in Procs :
         HasReturned(p)
            => /\ result[p].status = "success"
                    <=> (calls[p].post = 1 /\ "post" \notin failed[p])
               /\ result[p].status = "success"
                    => \E i \in 1..Len(NotesOf(p)) : NotesOf(p)[i] = comment[p].s

C14_Witness ==
    /\ \A p \in Procs : pc[p] = "done" /\ result[p] # None /\ result[p].status = "success"
    /\ Len(notes[<<1, 1>>]) = 2

\* The repository task p names does not exist on the host.
UnknownRepository(p) ==
    /\ calls[p].client = 1
    /\ IF endpoint[p] = "manual"
       THEN NewGitLabClient(None, project[p], TRUE) = None
       ELSE NewGitLabClient(project[p], None, TRUE) = None

\* The repository exists and has no merge request with the id task p names.
UnknownRequest(p) == client[p] # None /\ ~MrExists(p)

\* C15: a task that went to the repository host is answered 404 exactly when
\* the repository or the merge request it names is unknown there, on the
\* manual path and on the webhook path; upstream read and write failures are
\* answered 500.
C15_NotFoundAnswered404 ==
    \A p \in Procs :
        (pc[p] = "done" /\ calls[p].client = 1)
            => /\ (UnknownRepository(p) \/ UnknownRequest(p))
                    <=> response[p].status_code = 404
               /\ (failed[p] \cap {"diff", "post"} # {} /\ MrExists(p))
                    => response[p].status_code = 500

\* The value of a decimal numeral, read from its first digit on.
RECURSIVE DecimalValue(_, _)
DecimalValue(digits, acc) ==
    IF digits = <<>> THEN acc
    ELSE DecimalValue(Tail(digits), 10 * acc + DigitValue(Head(digits)))

\* The places of path where the marker /-/merge_requests/ starts, is followed
\* by a digit and is preceded by a "/" and a non-empty repository path.
MarkerPlaces(path) ==
    { j \in 1..(Len(path) - 5) :
        /\ SubSeq(path, j, j + 4) = Marker
        /\ IsDigit(path[j + 5])
        /\ \E i \in 1..(j - 2) : path[i] = "/" }

\* What the claim says the resolver returns for url: for a path of the form
\* /<path>/-/merge_requests/<digits>, the first such marker, the path between
\* the first "/" and that marker, and all the digits after it as a number;
\* (None, None) for every other string.
ExpectedParse(url) ==
    LET path == UrlPath(url)
        places == MarkerPlaces(path)
    IN  IF (url # <<>> /\ Head(url) = BadNetloc) \/ places = {} THEN <<None, None>>
        ELSE LET j == CHOOSE x \in places : \A y \in places : x <= y
                 i == CHOOSE x \in 1..Len(path) :
                        path[x] = "/" /\ \A y \in 1..(x - 1) : path[y] # "/"
                 e == CHOOSE x \in (j + 5)..Len(path) :
                        /\ \A k \in (j + 5)..x : IsDigit(path[k])
                        /\ x < Len(path) => ~IsDigit(path[x + 1])
             IN  <<Str(SubSeq(path, i + 1, j - 1)),
                   Num(DecimalValue(SubSeq(path, j + 5, e), 0))>>

\* C16: for every string given to it, parse_gitlab_pr_url returns what the
\* claim describes: (repository path, id) for a path that holds
\* /<path>/-/merge_requests/<digits> with a non-empty <path>, taken at the
\* first such marker, and (None, None) for every other string; it never
\* raises, so the handler always goes on to its test of the two values.
C16_ResolverFollowsPattern ==
    \A p \in Procs :
        (endpoint[p] = "manual" /\ pc[p] \notin {"idle", "man_parse"})
            => /\ <<project[p], mr_id[p]>> = ExpectedParse(request[p].s)
               /\ pc[p] = "done" => response[p] = InvalidUrl

C16_Witness ==
    \E p \in Procs :
        /\ pc[p] = "man_client"
        /\ request[p].s = <<SchemeHost, "/", "g">> \o Marker \o <<"1">> \o Marker \o <<"2">>
        /\ project[p] = S("g")
        /\ mr_id[p] = Num(1)

\* C17: within a run every step is taken at most once and in order: the title
\* lookup, the diff fetch, the generation call and the post happen at most
\* once each (the webhook's own diff fetch precedes the run); the generation
\* backend is called only after the run has fetched a non-empty diff and built
\* the prompt; the comment is posted only after the generation call has
\* returned a text and the comment was formatted.
C17_StepsInOrder ==
    \A p \in Procs :
        /\ calls[p].review <= 1
        /\ calls[p].get_mr <= 1
        /\ calls[p].get_diff <= (IF endpoint[p] = "webhook" THEN 2 ELSE 1)
        /\ calls[p].ollama <= 1
        /\ calls[p].post <= 1
        /\ diff[p] # None => calls[p].review = 1
        /\ calls[p].ollama = 1
             => /\ diff[p] # None
                /\ diff[p].s # <<>>
                /\ review_prompt[p] # None
                /\ Contains(review_prompt[p].s, diff[p].s)
                /\ generation[p] # None
        /\ (calls[p].post = 1 \/ pc[p] = "rv_post")
             => /\ calls[p].ollama = 1
                /\ ollama_response[p].py = "str"
                /\ comment[p] # None

C17_Witness ==
    \E p \in Procs :
        /\ pc[p] = "done"
        /\ endpoint[p] = "manual"
        /\ calls[p] = [client |-> 1, get_mr |-> 1, get_diff |-> 1, post |-> 1,
                       ollama |-> 1, review |-> 1]
        /\ result[p].status = "success"

\* The answer "Event type ... not processed".
IsKindSkip(r) ==
    /\ r.kind = "json"
    /\ r.status_code = 200
    /\ DOMAIN r.content = {"message"}
    /\ Head(r.content.message) = "Event type "

\* The event names a merge-request kind in object_kind or in event_type.
CarriesMergeRequestKind(payload) ==
    \/ Get(payload, "object_kind", None) \in MergeRequestKinds
    \/ Get(payload, "event_type", None) \in MergeRequestKinds

\* The kind of the event: its event_type when that field is present and not
\* empty, its object_kind otherwise.
ResolvedKind(payload) ==
    IF "event_type" \in DOMAIN payload.d /\ Truthy(payload.d["event_type"])
    THEN payload.d["event_type"]
    ELSE IF "object_kind" \in DOMAIN payload.d THEN payload.d["object_kind"] ELSE None

\* C18 as stated: an event that names a merge-request kind in object_kind or
\* in event_type passes the kind filter, and every other event is answered
\* 200 "not processed" with no call to the repository host, the orchestrator
\* or the generation backend.
C18_KindInEitherFieldProceeds ==
    [][ \A p \in Procs :
          (pc[p] = "wh_intake" /\ pc'[p] # "wh_intake" /\ HasGet(request[p]))
              => IF CarriesMergeRequestKind(request[p])
                 THEN ~(pc'[p] = "done" /\ IsKindSkip(response'[p]))
                 ELSE /\ pc'[p] = "done"
                      /\ IsKindSkip(response'[p])
                      /\ calls'[p] = NoCalls ]_vars

\* C18, amended: the kind of an event is its event_type, and its object_kind
\* only when event_type is missing or empty.  An event whose kind is a
\* merge-request kind passes the kind filter; every other event is answered
\* 200 "not processed" with no call to the repository host, the orchestrator
\* or the generation backend, then or later.
C18_ResolvedKindDecides ==
    [][ \A p \in Procs :
          /\ (pc[p] = "wh_intake" /\ pc'[p] # "wh_intake" /\ HasGet(request[p]))
                => IF ResolvedKind(request[p]) \in MergeRequestKinds
                   THEN ~(pc'[p] = "done" /\ IsKindSkip(response'[p]))
                   ELSE /\ pc'[p] = "done"
                        /\ IsKindSkip(response'[p])
                        /\ calls'[p] = NoCalls
          /\ (pc[p] = "done" /\ IsKindSkip(response[p]))
                => (pc'[p] = "done" /\ calls'[p] = NoCalls) ]_vars

C18_Witness ==
    \E p \in Procs :
        /\ endpoint[p] = "webhook"
        /\ pc[p] = "done"
        /\ response[p] = JSONResponse(200, Message(<<"Event type ", "note", " not processed">>))
        /\ calls[p] = NoCalls

\* The title an event carries inline; the title read from the host differs.
SuppliedTitle == S("Add orders table")

\* C19: a run whose caller supplied a title never looks the request up; a run
\* without a supplied title has looked it up once before it goes on to the
\* diff; and when that lookup fails the run has returned "error" without a
\* diff fetch of its own, a generation call or a post.
C19_TitleLookupOnlyWhenNeeded ==
    \A p \in Procs :
        /\ mr_title[p] = SuppliedTitle => calls[p].get_mr = 0
        /\ ( /\ calls[p].review = 1
             /\ pc[p] # "rv_title"
             /\ mr_title[p] # SuppliedTitle )
               => calls[p].get_mr = 1
        /\ "title" \in failed[p]
               => /\ HasReturned(p)
                  /\ result[p].status = "error"
                  /\ diff[p] = None
                  /\ calls[p].get_diff = (IF endpoint[p] = "webhook" THEN 1 ELSE 0)
                  /\ calls[p].ollama = 0
                  /\ calls[p].post = 0

C19_Witness ==
    \E p \in Procs :
        /\ "title" \in failed[p]
        /\ pc[p] = "done"
        /\ calls[p].get_mr = 1
        /\ calls[p].ollama = 0
        /\ calls[p].post = 0

\* The backend's reply carries a generated text.
CarriesText(reply) ==
    /\ reply.t = "json"
    /\ HasGet(reply.body)
    /\ "response" \in DOMAIN reply.body.d
    /\ reply.body.d["response"].py = "str"

\* C20: the comment of a run has the warning format exactly when the
\* generation call of the run failed (so every text of a successful call is in
\* the review format), and a reply that carries no generated text never ends
\* up in a comment of the review format.
C20_WarningIffGenerationFailed ==
    \A p \in Procs :
        comment[p] # None
            => /\ Head(comment[p].s) = WarningHead <=> "generation" \in failed[p]
               /\ ~CarriesText(generation[p]) => Head(comment[p].s) # ReviewHead

\* C21: on the webhook path, once the handler's own fetch has returned a
\* non-empty diff, the run reviews that same diff: the diff the run works on
\* is the one the handler saw, and the run neither returns "No changes found"
\* nor reports a failed diff fetch, whatever happens to the merge request on
\* the host in the meantime.
C21_RunReviewsTheIntakeDiff ==
    \A p \in Procs :
        ( /\ endpoint[p] = "webhook"
          /\ intake_diff[p] # None
          /\ intake_diff[p].s # <<>> )
            => /\ diff[p] # None => diff[p] = intake_diff[p]
               /\ "diff" \notin failed[p]
               /\ HasReturned(p)
                    => /\ result[p] # ResultNoChanges(mr_id[p])
                       /\ result[p] # ResultDiffFailed

====
